---------------------------- MODULE Spec2Model ----------------------------
(***************************************************************************)
(* OnShape Touch: the gesture classifier (mode, prevDistance,              *)
(* contextMenuTimer), the checkEvent gate and the dispatchEvent            *)
(* synthesizer of onshape-touch.user.ts, as a state machine driven by      *)
(* touchstart / touchmove / touchend notifications and the context-menu    *)
(* timer.                                                                  *)
(***************************************************************************)
EXTENDS Integers, Sequences, FiniteSets

(* JavaScript null / undefined: an absent value is the empty tuple, a      *)
(* present value v is <<v>>.                                               *)
Null == <<>>

(* ------------------------------ bounds --------------------------------- *)
(* Number of notifications and timer firings recorded for one gesture.     *)
MaxGesture == 4
(* The ids setTimeout can return are 1..MaxTimerId.                        *)
MaxTimerId == 2

(* ----------------------------- constants ------------------------------- *)
ZOOM_SENSITIVITY == 10000
CONTEXT_MENU_TIMEOUT == 1000

(* window.screen.width values of the device.                               *)
ScreenWidths == {1920}

(* A Touch: the six coordinates dispatchEvent reads.  Screen coordinates   *)
(* are device pixels, client coordinates CSS pixels (half of them), page   *)
(* coordinates the client ones shifted by the scroll offset.               *)
Touch(sx, sy) ==
    [screenX |-> sx, screenY |-> sy,
     clientX |-> sx \div 2, clientY |-> sy \div 2,
     pageX |-> sx \div 2, pageY |-> (sy \div 2) + 200]

(* The TouchLists (e.touches) the notifications carry.  Coordinates are    *)
(* multiples of four and every two-point separation is a whole number, so  *)
(* means and Math.hypot are exact in integer arithmetic.                   *)
T0 == <<>>
T1 == <<Touch(100, 100)>>
T2a == <<Touch(0, 0), Touch(100, 0)>>
T2b == <<Touch(0, 0), Touch(80, 0)>>
T2d == <<Touch(0, 0), Touch(60, 80)>>
T2z == <<Touch(40, 40), Touch(40, 40)>>
T3 == <<Touch(0, 0), Touch(40, 0), Touch(200, 200)>>

StartTouches == {T1, T2a}
MoveTouches == {T1, T2b, T2d, T2z}
EndTouches == {T0, T3}

(* e.target: absent (null), an object with no id property, or an element   *)
(* with an id.                                                             *)
Targets ==
    {[exists |-> FALSE, hasId |-> FALSE, id |-> ""],
     [exists |-> TRUE, hasId |-> FALSE, id |-> ""],
     [exists |-> TRUE, hasId |-> TRUE, id |-> "canvas"],
     [exists |-> TRUE, hasId |-> TRUE, id |-> "toolbar"]}

(* The elements document.getElementById('canvas') can return over time.    *)
Elements == {1, 2}

(* Event types as character sequences, so that String.startsWith is a     *)
(* comparison of prefixes.                                                 *)
touch == <<"t", "o", "u", "c", "h">>
touchstart == touch \o <<"s", "t", "a", "r", "t">>
touchmove == touch \o <<"m", "o", "v", "e">>
touchend == touch \o <<"e", "n", "d">>
touchcancel == touch \o <<"c", "a", "n", "c", "e", "l">>
Touchstart == <<"T", "o", "u", "c", "h", "s", "t", "a", "r", "t">>
tou == <<"t", "o", "u">>
click == <<"c", "l", "i", "c", "k">>
DOMContentLoaded == <<"D", "O", "M", "C", "o", "n", "t", "e", "n", "t",
                      "L", "o", "a", "d", "e", "d">>

(* The types and targets of the addEventListener calls page code makes.    *)
HostTypes == {touchstart, touchcancel, touch, tou, Touchstart, click}
HostTargets == {"document", "canvas"}

VARIABLES
    mode,              \* Mode
    prevDistance,      \* Null or <<distance>>
    contextMenuTimer,  \* Null or <<timer id>>
    canvas,            \* cached target element: Null or <<element>>
    timers,            \* the platform's scheduled timeouts: [id, touches]
    dom,               \* the element with id 'canvas' in the document
    screenWidth,       \* window.screen.width
    lastIn,            \* the last notification or timer firing
    lastOut,           \* the events dispatched by the last handler run
    sentTo,            \* the element they were dispatched on, or Null
    threw,             \* the last handler run ended with a TypeError
    gest,              \* accepted notifications / firings since the last touchstart
    out,               \* events dispatched since the last accepted touchstart
    startDistance,     \* prevDistance as the last accepted touchstart found it
    ref,               \* reference classifier, restarted from the initial
                       \* state whenever a step begins with mode None
    listeners,         \* the registered event listeners: [type, target, owner]
    patched,           \* EventTarget.prototype.addEventListener is the patch
    lastReg,           \* the last addEventListener call of page code, or Null
    held               \* the mousedown not yet followed by a mouseup, or Null

vars == <<mode, prevDistance, contextMenuTimer, canvas, timers, dom,
          screenWidth, lastIn, lastOut, sentTo, threw, gest, out,
          startDistance, ref, listeners, patched, lastReg, held>>

(* const enum Mode                                                         *)
Mode == {"None", "PreRotate", "PreZoomPan", "Rotate", "ZoomPan"}

(* JavaScript truthiness of a number | null.                               *)
Truthy(v) == v # Null /\ v[1] # 0

Abs(n) == IF n < 0 THEN 0 - n ELSE n

(* Math.hypot for arguments whose hypotenuse is a whole number.            *)
Hypot(dx, dy) ==
    CHOOSE r \in 0..(Abs(dx) + Abs(dy)) : r * r = dx * dx + dy * dy

(* A rational number num/den (a wheel delta).                              *)
Rat(n, d) == [num |-> n, den |-> d]
Sign(n) == IF n > 0 THEN 1 ELSE IF n < 0 THEN 0 - 1 ELSE 0

(* MouseEventInit / WheelEventInit members the handlers pass; the members  *)
(* left out take the constructors' defaults (button 0, buttons 0,          *)
(* deltaY 0).                                                              *)
EventInit(button, buttons) ==
    [button |-> button, buttons |-> buttons, deltaY |-> Rat(0, 1)]
NoEventInit == EventInit(0, 0)
WheelInit(deltaY) == [button |-> 0, buttons |-> 0, deltaY |-> deltaY]

(* dispatchEvent looking the element up on every call.                     *)
ResolveCanvas_EveryCall(cv) == dom

(* canvas after the lazy lookup at the top of dispatchEvent.               *)
ResolveCanvas(cv) == IF cv = Null THEN dom ELSE cv

(* dispatchEvent taking the first touch point whatever their number.       *)
dispatchEvent_FirstPoint(touches, type, eventInit) ==
    LET one == Len(touches) >= 1
    IN  [type |-> type,
         screenX |-> IF one THEN touches[1].screenX ELSE 0,
         screenY |-> IF one THEN touches[1].screenY ELSE 0,
         clientX |-> IF one THEN touches[1].clientX ELSE 0,
         clientY |-> IF one THEN touches[1].clientY ELSE 0,
         pageX |-> IF one THEN touches[1].pageX ELSE 0,
         pageY |-> IF one THEN touches[1].pageY ELSE 0,
         button |-> eventInit.button,
         buttons |-> eventInit.buttons,
         deltaY |-> eventInit.deltaY,
         bubbles |-> TRUE,
         wheel |-> (type = "mousewheel")]

(* dispatchEvent(touchEvent, type, eventInit): the event it builds.         *)
dispatchEvent(touches, type, eventInit) ==
    LET two == Len(touches) >= 2
        one == Len(touches) >= 1
        Mean(a, b) == (a + b) \div 2
    IN  [type |-> type,
         screenX |-> IF two THEN Mean(touches[1].screenX, touches[2].screenX)
                     ELSE IF one THEN touches[1].screenX ELSE 0,
         screenY |-> IF two THEN Mean(touches[1].screenY, touches[2].screenY)
                     ELSE IF one THEN touches[1].screenY ELSE 0,
         clientX |-> IF two THEN Mean(touches[1].clientX, touches[2].clientX)
                     ELSE IF one THEN touches[1].clientX ELSE 0,
         clientY |-> IF two THEN Mean(touches[1].clientY, touches[2].clientY)
                     ELSE IF one THEN touches[1].clientY ELSE 0,
         pageX |-> IF two THEN Mean(touches[1].pageX, touches[2].pageX)
                   ELSE IF one THEN touches[1].pageX ELSE 0,
         pageY |-> IF two THEN Mean(touches[1].pageY, touches[2].pageY)
                   ELSE IF one THEN touches[1].pageY ELSE 0,
         button |-> eventInit.button,
         buttons |-> eventInit.buttons,
         deltaY |-> eventInit.deltaY,
         bubbles |-> TRUE,
         wheel |-> (type = "mousewheel")]

(* checkEvent comparing target.id without the 'id' in target test: the id  *)
(* of a target that has none is undefined, which is not 'canvas'.          *)
checkEventAccepts_NoInTest(e) ==
    ~(e.target.exists /\ (~e.target.hasId \/ e.target.id # "canvas"))

(* checkEvent's test of the target: TRUE when the event is accepted.       *)
checkEventAccepts(e) ==
    ~(e.target.exists /\ e.target.hasId /\ e.target.id # "canvas")

(* checkEvent without the clearTimeout call.                               *)
checkEventClear_NoClear(handle, scheduled) == scheduled

(* checkEvent's clearTimeout(contextMenuTimer): the scheduled timeouts     *)
(* that remain.                                                            *)
checkEventClear(handle, scheduled) ==
    IF Truthy(handle)
    THEN {t \in scheduled : t.id # handle[1]}
    ELSE scheduled

(* setTimeout returns an id greater than zero that no scheduled timeout    *)
(* has; which one is up to the platform.                                   *)
setTimeoutIds(scheduled) == (1..MaxTimerId) \ {t.id : t \in scheduled}

(* ----------------------- listener registration ------------------------- *)
(* type.startsWith(prefix)                                                 *)
startsWith(type, prefix) ==
    /\ Len(type) >= Len(prefix)
    /\ SubSeq(type, 1, Len(prefix)) = prefix

(* The platform's EventTarget.prototype.addEventListener.                  *)
originalAddEventListener(registry, reg) == registry \cup {reg}

(* The patch dropping the three types the script listens to only.          *)
addEventListener_OwnTypes(isPatched, registry, reg) ==
    IF isPatched
    THEN IF reg.type \notin {touchstart, touchmove, touchend}
         THEN originalAddEventListener(registry, reg)
         ELSE registry
    ELSE originalAddEventListener(registry, reg)

(* EventTarget.prototype.addEventListener as a call finds it: the          *)
(* platform's before the patch is installed, the patch after.              *)
addEventListener(isPatched, registry, reg) ==
    IF isPatched
    THEN IF ~startsWith(reg.type, touch)
         THEN originalAddEventListener(registry, reg)
         ELSE registry
    ELSE originalAddEventListener(registry, reg)

Listener(type, target, owner) ==
    [type |-> type, target |-> target, owner |-> owner]

(* The statements of the script that register a listener or install the    *)
(* patch, in source order.                                                 *)
scriptSteps ==
    <<DOMContentLoaded, touchstart, touchmove, touchend, "patch">>

(* The registry and patch state after the first n statements ran; the      *)
(* script runs at document-start, before any page code.                    *)
RECURSIVE runScript(_)
runScript(n) ==
    IF n = 0
    THEN [listeners |-> {}, patched |-> FALSE]
    ELSE LET st == runScript(n - 1)
             step == scriptSteps[n]
         IN  IF step = "patch"
             THEN [st EXCEPT !.patched = TRUE]
             ELSE [st EXCEPT !.listeners =
                     addEventListener(st.patched, st.listeners,
                                      Listener(step, "document", "script"))]

(* ------------------------- the three listeners ------------------------- *)
(* Each listener body, after checkEvent accepted the event, as a function  *)
(* of the classifier state it reads: the state it leaves and the events it *)
(* dispatches, in order.                                                   *)

(* touchstart taking more than two fingers for a pinch.                    *)
touchstartMode_MoreThanTwo(touches) ==
    IF Len(touches) > 2 THEN "PreZoomPan" ELSE "PreRotate"

(* touchstart: mode = e.touches.length >= 2 ? PreZoomPan : PreRotate       *)
touchstartMode(touches) ==
    IF Len(touches) >= 2 THEN "PreZoomPan" ELSE "PreRotate"

(* The callback leaving mode as it is.                                     *)
timerBody_KeepMode(touches) ==
    LET common == EventInit(2, 2)
    IN  [mode |-> mode,
         events |-> <<dispatchEvent(touches, "mousedown", common),
                      dispatchEvent(touches, "mouseup", common)>>]

(* The callback choosing the button by the number of fingers.              *)
timerBody_ByFingers(touches) ==
    LET common == IF Len(touches) >= 2 THEN EventInit(1, 4) ELSE EventInit(2, 2)
    IN  [mode |-> "None",
         events |-> <<dispatchEvent(touches, "mousedown", common),
                      dispatchEvent(touches, "mouseup", common)>>]

(* The setTimeout callback of the touchstart listener, closed over e.      *)
timerBody(touches) ==
    LET common == EventInit(2, 2)
    IN  [mode |-> "None",
         events |-> <<dispatchEvent(touches, "mousedown", common),
                      dispatchEvent(touches, "mouseup", common)>>]

(* The wheel delta ((distance - prevDistance) / screen.width) * SENSITIVITY *)
(* as an exact fraction.                                                   *)
wheelDelta(distance, prev, width) ==
    Rat((distance - prev) * ZOOM_SENSITIVITY, width)

(* touchmove remembering the separation already on the first move.        *)
touchmoveBody_RecordOnDown(m, pd, touches, width) ==
    CASE m = "PreZoomPan" ->
           [mode |-> "ZoomPan", threw |-> FALSE,
            prevDistance |->
              IF Len(touches) >= 2
              THEN <<Hypot(touches[1].screenX - touches[2].screenX,
                           touches[1].screenY - touches[2].screenY)>>
              ELSE pd,
            events |-> <<dispatchEvent(touches, "mousedown", EventInit(1, 4))>>]
      [] m = "ZoomPan" ->
           IF Len(touches) < 2
           THEN [mode |-> m, prevDistance |-> pd, threw |-> TRUE,
                 events |-> <<dispatchEvent(touches, "mousemove", EventInit(2, 0))>>]
           ELSE LET distance == Hypot(touches[1].screenX - touches[2].screenX,
                                      touches[1].screenY - touches[2].screenY)
                IN  [mode |-> m, prevDistance |-> <<distance>>, threw |-> FALSE,
                     events |->
                       <<dispatchEvent(touches, "mousemove", EventInit(2, 0))>>
                       \o (IF Truthy(pd)
                           THEN <<dispatchEvent(touches, "mousewheel",
                                    WheelInit(wheelDelta(distance, pd[1], width)))>>
                           ELSE <<>>)]
      [] m = "PreRotate" ->
           [mode |-> "Rotate", prevDistance |-> pd, threw |-> FALSE,
            events |-> <<dispatchEvent(touches, "mousedown", EventInit(2, 2))>>]
      [] m = "Rotate" ->
           [mode |-> m, prevDistance |-> pd, threw |-> FALSE,
            events |-> <<dispatchEvent(touches, "mousemove", EventInit(2, 2))>>]
      [] OTHER ->
           [mode |-> m, prevDistance |-> pd, threw |-> FALSE, events |-> <<>>]

(* The switch of the touchmove listener.                                   *)
touchmoveBody(m, pd, touches, width) ==
    CASE m = "PreZoomPan" ->
           [mode |-> "ZoomPan", prevDistance |-> pd, threw |-> FALSE,
            events |-> <<dispatchEvent(touches, "mousedown", EventInit(1, 4))>>]
      [] m = "ZoomPan" ->
           IF Len(touches) < 2
           THEN \* e.touches[1] is undefined: reading .screenX throws
                [mode |-> m, prevDistance |-> pd, threw |-> TRUE,
                 events |-> <<dispatchEvent(touches, "mousemove", EventInit(2, 0))>>]
           ELSE LET distance == Hypot(touches[1].screenX - touches[2].screenX,
                                      touches[1].screenY - touches[2].screenY)
                IN  [mode |-> m, prevDistance |-> <<distance>>, threw |-> FALSE,
                     events |->
                       <<dispatchEvent(touches, "mousemove", EventInit(2, 0))>>
                       \o (IF Truthy(pd)
                           THEN <<dispatchEvent(touches, "mousewheel",
                                    WheelInit(wheelDelta(distance, pd[1], width)))>>
                           ELSE <<>>)]
      [] m = "PreRotate" ->
           [mode |-> "Rotate", prevDistance |-> pd, threw |-> FALSE,
            events |-> <<dispatchEvent(touches, "mousedown", EventInit(2, 2))>>]
      [] m = "Rotate" ->
           [mode |-> m, prevDistance |-> pd, threw |-> FALSE,
            events |-> <<dispatchEvent(touches, "mousemove", EventInit(2, 2))>>]
      [] OTHER ->
           [mode |-> m, prevDistance |-> pd, threw |-> FALSE, events |-> <<>>]

(* touchend without the quick-tap case.                                    *)
touchendBody_NoTap(m, pd, touches) ==
    CASE m = "ZoomPan" ->
           [mode |-> "None", prevDistance |-> Null,
            events |-> <<dispatchEvent(touches, "mouseup", EventInit(1, 4))>>]
      [] m = "Rotate" ->
           [mode |-> "None", prevDistance |-> pd,
            events |-> <<dispatchEvent(touches, "mouseup", EventInit(2, 2))>>]
      [] m = "PreRotate" ->
           [mode |-> "None", prevDistance |-> pd, events |-> <<>>]
      [] OTHER ->
           [mode |-> m, prevDistance |-> pd, events |-> <<>>]

(* touchend leaving prevDistance as it is when a pinch ends.               *)
touchendBody_KeepDistance(m, pd, touches) ==
    CASE m = "ZoomPan" ->
           [mode |-> "None", prevDistance |-> pd,
            events |-> <<dispatchEvent(touches, "mouseup", EventInit(1, 4))>>]
      [] m = "Rotate" ->
           [mode |-> "None", prevDistance |-> pd,
            events |-> <<dispatchEvent(touches, "mouseup", EventInit(2, 2))>>]
      [] m = "PreRotate" ->
           [mode |-> "None", prevDistance |-> pd,
            events |-> <<dispatchEvent(touches, "mousemove", NoEventInit),
                         dispatchEvent(touches, "mousedown", NoEventInit),
                         dispatchEvent(touches, "mouseup", NoEventInit)>>]
      [] OTHER ->
           [mode |-> m, prevDistance |-> pd, events |-> <<>>]

(* touchend taking a two-finger tap back to None.                          *)
touchendBody_PinchTapIdle(m, pd, touches) ==
    CASE m = "ZoomPan" ->
           [mode |-> "None", prevDistance |-> Null,
            events |-> <<dispatchEvent(touches, "mouseup", EventInit(1, 4))>>]
      [] m = "Rotate" ->
           [mode |-> "None", prevDistance |-> pd,
            events |-> <<dispatchEvent(touches, "mouseup", EventInit(2, 2))>>]
      [] m = "PreRotate" ->
           [mode |-> "None", prevDistance |-> pd,
            events |-> <<dispatchEvent(touches, "mousemove", NoEventInit),
                         dispatchEvent(touches, "mousedown", NoEventInit),
                         dispatchEvent(touches, "mouseup", NoEventInit)>>]
      [] m = "PreZoomPan" ->
           [mode |-> "None", prevDistance |-> pd, events |-> <<>>]
      [] OTHER ->
           [mode |-> m, prevDistance |-> pd, events |-> <<>>]

(* touchend dispatching the tap without leaving PreRotate.                 *)
touchendBody_TapKeepsMode(m, pd, touches) ==
    CASE m = "ZoomPan" ->
           [mode |-> "None", prevDistance |-> Null,
            events |-> <<dispatchEvent(touches, "mouseup", EventInit(1, 4))>>]
      [] m = "Rotate" ->
           [mode |-> "None", prevDistance |-> pd,
            events |-> <<dispatchEvent(touches, "mouseup", EventInit(2, 2))>>]
      [] m = "PreRotate" ->
           [mode |-> m, prevDistance |-> pd,
            events |-> <<dispatchEvent(touches, "mousemove", NoEventInit),
                         dispatchEvent(touches, "mousedown", NoEventInit),
                         dispatchEvent(touches, "mouseup", NoEventInit)>>]
      [] OTHER ->
           [mode |-> m, prevDistance |-> pd, events |-> <<>>]

(* touchend with the tap as the default case of the switch.                *)
touchendBody_TapByDefault(m, pd, touches) ==
    CASE m = "ZoomPan" ->
           [mode |-> "None", prevDistance |-> Null,
            events |-> <<dispatchEvent(touches, "mouseup", EventInit(1, 4))>>]
      [] m = "Rotate" ->
           [mode |-> "None", prevDistance |-> pd,
            events |-> <<dispatchEvent(touches, "mouseup", EventInit(2, 2))>>]
      [] m = "PreRotate" ->
           [mode |-> "None", prevDistance |-> pd,
            events |-> <<dispatchEvent(touches, "mousemove", NoEventInit),
                         dispatchEvent(touches, "mousedown", NoEventInit),
                         dispatchEvent(touches, "mouseup", NoEventInit)>>]
      [] OTHER ->
           [mode |-> "None", prevDistance |-> pd,
            events |-> <<dispatchEvent(touches, "mousemove", NoEventInit),
                         dispatchEvent(touches, "mousedown", NoEventInit),
                         dispatchEvent(touches, "mouseup", NoEventInit)>>]

(* The switch of the touchend listener.                                    *)
touchendBody(m, pd, touches) ==
    CASE m = "ZoomPan" ->
           [mode |-> "None", prevDistance |-> Null,
            events |-> <<dispatchEvent(touches, "mouseup", EventInit(1, 4))>>]
      [] m = "Rotate" ->
           [mode |-> "None", prevDistance |-> pd,
            events |-> <<dispatchEvent(touches, "mouseup", EventInit(2, 2))>>]
      [] m = "PreRotate" ->
           [mode |-> "None", prevDistance |-> pd,
            events |-> <<dispatchEvent(touches, "mousemove", NoEventInit),
                         dispatchEvent(touches, "mousedown", NoEventInit),
                         dispatchEvent(touches, "mouseup", NoEventInit)>>]
      [] OTHER ->
           [mode |-> m, prevDistance |-> pd, events |-> <<>>]

(* canvas after a handler run that called dispatchEvent for evs, and the   *)
(* element canvas?.dispatchEvent delivered them to (Null: none).           *)
canvasAfter(cv, evs) == IF evs = <<>> THEN cv ELSE ResolveCanvas(cv)
deliveredTo(cv, evs) == IF evs = <<>> THEN Null ELSE ResolveCanvas(cv)

(* The mousedown left without a mouseup once evs were dispatched, h being  *)
(* the one before them: its button and buttons, or Null.                   *)
RECURSIVE heldAfter(_, _)
heldAfter(h, evs) ==
    IF evs = <<>>
    THEN h
    ELSE heldAfter(CASE Head(evs).type = "mousedown" ->
                          << <<Head(evs).button, Head(evs).buttons>> >>
                     [] Head(evs).type = "mouseup" -> Null
                     [] OTHER -> h,
                   Tail(evs))

(* ------------------------ reference classifier ------------------------- *)
Pristine == [mode |-> "None", prevDistance |-> Null, timer |-> Null, out |-> <<>>]
RefBase == IF mode = "None" THEN Pristine ELSE ref

(* --------------------------- state machine ----------------------------- *)
(* checkEvent without the preventDefault call.                             *)
Notification_NoPreventDefault(kind, e, accepted) ==
    [kind |-> kind, target |-> e.target, accepted |-> accepted,
     defaultPrevented |-> FALSE]

(* What a listener did with a notification: checkEvent's verdict, and      *)
(* whether preventDefault was called.                                      *)
Notification(kind, e, accepted) ==
    [kind |-> kind, target |-> e.target, accepted |-> accepted,
     defaultPrevented |-> accepted]
NoTarget == [exists |-> FALSE, hasId |-> FALSE, id |-> ""]

Init ==
    /\ mode = "None"
    /\ prevDistance = Null
    /\ contextMenuTimer = Null
    /\ canvas = Null
    /\ timers = {}
    /\ dom \in {Null, <<1>>}
    /\ screenWidth \in ScreenWidths
    /\ lastIn = [kind |-> "init", target |-> NoTarget, accepted |-> FALSE,
                 defaultPrevented |-> FALSE]
    /\ lastOut = <<>>
    /\ sentTo = Null
    /\ threw = FALSE
    /\ gest = <<>>
    /\ out = <<>>
    /\ startDistance = Null
    /\ ref = Pristine
    /\ listeners = runScript(Len(scriptSteps)).listeners
    /\ patched = runScript(Len(scriptSteps)).patched
    /\ lastReg = Null
    /\ held = Null

(* checkEvent returned false: the listener returns at once.                *)
Rejected(kind, e) ==
    /\ lastIn' = Notification(kind, e, FALSE)
    /\ lastOut' = <<>>
    /\ sentTo' = Null
    /\ threw' = FALSE
    /\ ref' = [RefBase EXCEPT !.out = <<>>]
    /\ UNCHANGED <<mode, prevDistance, contextMenuTimer, canvas, timers, dom,
                   screenWidth, gest, out, startDistance, listeners,
                   patched, lastReg, held>>

(* The touchstart listener.                                                *)
TouchStart ==
    /\ \E tg \in Targets, ts \in StartTouches :
        LET e == [target |-> tg, touches |-> ts]
            cleared == checkEventClear(contextMenuTimer, timers)
        IN  IF ~checkEventAccepts(e)
            THEN Rejected("touchstart", e)
            ELSE /\ mode' = touchstartMode(ts)
                 /\ \E id \in setTimeoutIds(cleared) :
                      /\ timers' = cleared \cup {[id |-> id, touches |-> ts,
                                                  delay |-> CONTEXT_MENU_TIMEOUT]}
                      /\ contextMenuTimer' = <<id>>
                 /\ lastIn' = Notification("touchstart", e, TRUE)
                 /\ lastOut' = <<>>
                 /\ sentTo' = Null
                 /\ threw' = FALSE
                 /\ gest' = <<[kind |-> "touchstart", touches |-> ts]>>
                 /\ out' = <<>>
                 /\ startDistance' = prevDistance
                 /\ ref' = [mode |-> touchstartMode(ts),
                            prevDistance |-> RefBase.prevDistance,
                            timer |-> <<ts>>, out |-> <<>>]
                 /\ UNCHANGED <<prevDistance, canvas, dom, screenWidth,
                                listeners, patched, lastReg, held>>

(* The touchmove listener.                                                 *)
TouchMove ==
    /\ Len(gest) < MaxGesture
    /\ \E tg \in Targets, ts \in MoveTouches :
        LET e == [target |-> tg, touches |-> ts]
            r == touchmoveBody(mode, prevDistance, ts, screenWidth)
            rr == touchmoveBody(RefBase.mode, RefBase.prevDistance, ts,
                                screenWidth)
        IN  IF ~checkEventAccepts(e)
            THEN Rejected("touchmove", e)
            ELSE /\ timers' = checkEventClear(contextMenuTimer, timers)
                 /\ contextMenuTimer' = Null
                 /\ mode' = r.mode
                 /\ prevDistance' = r.prevDistance
                 /\ canvas' = canvasAfter(canvas, r.events)
                 /\ lastIn' = Notification("touchmove", e, TRUE)
                 /\ lastOut' = r.events
                 /\ sentTo' = deliveredTo(canvas, r.events)
                 /\ threw' = r.threw
                 /\ gest' = Append(gest, [kind |-> "touchmove", touches |-> ts])
                 /\ out' = out \o r.events
                 /\ ref' = [mode |-> rr.mode, prevDistance |-> rr.prevDistance,
                            timer |-> Null, out |-> rr.events]
                 /\ held' = heldAfter(held, r.events)
                 /\ UNCHANGED <<dom, screenWidth, startDistance, listeners,
                                patched, lastReg>>

(* The touchend listener.                                                  *)
TouchEnd ==
    /\ Len(gest) < MaxGesture
    /\ \E tg \in Targets, ts \in EndTouches :
        LET e == [target |-> tg, touches |-> ts]
            r == touchendBody(mode, prevDistance, ts)
            rr == touchendBody(RefBase.mode, RefBase.prevDistance, ts)
        IN  IF ~checkEventAccepts(e)
            THEN Rejected("touchend", e)
            ELSE /\ timers' = checkEventClear(contextMenuTimer, timers)
                 /\ contextMenuTimer' = Null
                 /\ mode' = r.mode
                 /\ prevDistance' = r.prevDistance
                 /\ canvas' = canvasAfter(canvas, r.events)
                 /\ lastIn' = Notification("touchend", e, TRUE)
                 /\ lastOut' = r.events
                 /\ sentTo' = deliveredTo(canvas, r.events)
                 /\ threw' = FALSE
                 /\ gest' = Append(gest, [kind |-> "touchend", touches |-> ts])
                 /\ out' = out \o r.events
                 /\ ref' = [mode |-> rr.mode, prevDistance |-> rr.prevDistance,
                            timer |-> Null, out |-> rr.events]
                 /\ held' = heldAfter(held, r.events)
                 /\ UNCHANGED <<dom, screenWidth, startDistance, listeners,
                                patched, lastReg>>

(* A scheduled timeout elapses and its callback runs.                      *)
TimerFire ==
    /\ Len(gest) < MaxGesture
    /\ \E t \in timers :
        LET r == timerBody(t.touches)
            rb == RefBase
        IN  /\ timers' = timers \ {t}
            /\ mode' = r.mode
            /\ contextMenuTimer' = Null
            /\ canvas' = canvasAfter(canvas, r.events)
            /\ lastIn' = [kind |-> "timer", target |-> NoTarget,
                          accepted |-> TRUE, defaultPrevented |-> FALSE]
            /\ lastOut' = r.events
            /\ sentTo' = deliveredTo(canvas, r.events)
            /\ threw' = FALSE
            /\ gest' = Append(gest, [kind |-> "timer", touches |-> t.touches])
            /\ out' = out \o r.events
            /\ ref' = IF rb.timer = Null
                      THEN [rb EXCEPT !.out = <<>>]
                      ELSE [mode |-> "None", prevDistance |-> rb.prevDistance,
                            timer |-> Null,
                            out |-> timerBody(rb.timer[1]).events]
            /\ held' = heldAfter(held, r.events)
            /\ UNCHANGED <<prevDistance, dom, screenWidth, startDistance,
                           listeners, patched, lastReg>>

(* The page adds, removes or replaces the element with id 'canvas'.        *)
DomChange ==
    /\ \E d \in {Null} \cup {<<el>> : el \in Elements} :
        /\ d # dom
        /\ dom' = d
    /\ UNCHANGED <<mode, prevDistance, contextMenuTimer, canvas, timers,
                   screenWidth, lastIn, lastOut, sentTo, threw, gest, out,
                   startDistance, ref, listeners, patched, lastReg, held>>

(* Page code calls addEventListener(type, listener) on some target.        *)
AddEventListener ==
    /\ \E type \in HostTypes, target \in HostTargets :
        LET reg == Listener(type, target, "host")
        IN  /\ listeners' = addEventListener(patched, listeners, reg)
            /\ lastReg' = <<reg>>
    /\ UNCHANGED <<mode, prevDistance, contextMenuTimer, canvas, timers, dom,
                   screenWidth, lastIn, lastOut, sentTo, threw, gest, out,
                   startDistance, ref, patched, held>>

(* The classifier driven by notifications and the timer, the document     *)
(* left as it is.                                                          *)
Next == TouchStart \/ TouchMove \/ TouchEnd \/ TimerFire

Spec == Init /\ [][Next]_vars

(* The notifications are those of touches on the canvas element.           *)
OnCanvas == lastIn.target.hasId /\ lastIn.target.id = "canvas"

(* The classifier driven by touches on the canvas, with the page changing  *)
(* the document underneath.                                                *)
NextDom ==
    \/ TouchStart /\ OnCanvas'
    \/ TouchMove /\ OnCanvas'
    \/ TouchEnd /\ OnCanvas'
    \/ TimerFire
    \/ DomChange

SpecDom == Init /\ [][NextDom]_vars

(* The classifier with the platform running the callback of a scheduled   *)
(* timeout once its delay has elapsed, unless clearTimeout removed it.     *)
(* The notifications are those of touches on elements with an id (the      *)
(* canvas, the toolbar).                                                   *)
OnElementWithId == lastIn.kind = "timer" \/ lastIn.target.hasId

NextLive ==
    \/ TouchStart /\ OnElementWithId'
    \/ TouchMove /\ OnElementWithId'
    \/ TouchEnd /\ OnElementWithId'
    \/ TimerFire

SpecLive == Init /\ [][NextLive]_vars /\ WF_vars(TimerFire)

(* Page code registering listeners after the script ran.                   *)
NextPatch == AddEventListener

SpecPatch == Init /\ [][NextPatch]_vars

(* ------------------------------ properties ----------------------------- *)
(* What a synthesized event is to the host: its type, button and buttons.  *)
Kind(ev) == <<ev.type, ev.button, ev.buttons>>
Kinds(evs) == [i \in DOMAIN evs |-> Kind(evs[i])]
GestKinds == [i \in DOMAIN gest |-> gest[i].kind]

(* The current gesture began with a touchstart of one / of two fingers and *)
(* every notification accepted since was a touchmove, but possibly the     *)
(* last, a touchend; no timer fired.                                       *)
DragShape ==
    /\ Len(gest) >= 2
    /\ gest[1].kind = "touchstart"
    /\ gest[2].kind = "touchmove"
    /\ \A i \in 2..(Len(gest) - 1) : gest[i].kind = "touchmove"
    /\ gest[Len(gest)].kind \in {"touchmove", "touchend"}
OneFingerDrag == DragShape /\ Len(gest[1].touches) = 1
TwoFingerDrag == DragShape /\ Len(gest[1].touches) >= 2

(* C1: a one-finger touchstart directly followed by a touchend produces    *)
(* exactly mousemove, mousedown, mouseup, in this order, all with the      *)
(* default button (button 0, buttons 0), and leaves mode None.             *)
C1_QuickTap ==
    (/\ GestKinds = <<"touchstart", "touchend">>
     /\ Len(gest[1].touches) = 1)
    => /\ Kinds(out) = << <<"mousemove", 0, 0>>, <<"mousedown", 0, 0>>,
                          <<"mouseup", 0, 0>> >>
       /\ mode = "None"

C1_Witness ==
    /\ GestKinds = <<"touchstart", "touchend">>
    /\ gest[1].touches = T1
    /\ Len(out) = 3

(* C2: when the timer fires right after a one-finger touchstart, the whole *)
(* gesture produces exactly mousedown, mouseup, both with button 2 and     *)
(* buttons 2; the touchend (or any touchmove) that follows the firing adds *)
(* nothing.                                                                *)
C2_LongPress ==
    (/\ Len(gest) >= 2
     /\ gest[1].kind = "touchstart"
     /\ Len(gest[1].touches) = 1
     /\ gest[2].kind = "timer")
    => /\ Kinds(out) = << <<"mousedown", 2, 2>>, <<"mouseup", 2, 2>> >>
       /\ (Len(gest) >= 3 => lastOut = <<>>)

C2_Witness ==
    /\ GestKinds = <<"touchstart", "timer", "touchend">>
    /\ gest[1].touches = T1
    /\ Len(out) = 2
    /\ lastOut = <<>>

(* C3: in a one-finger touchstart, touchmove ..., touchend sequence the    *)
(* first touchmove produces one mousedown with button 2, every later       *)
(* touchmove one mousemove, the touchend one mouseup with button 2; from   *)
(* the first touchmove on no timeout is scheduled, so no long-press pair   *)
(* can follow.                                                             *)
C3_RotateDrag ==
    OneFingerDrag
    => /\ Kinds(out) =
            [i \in 1..(Len(gest) - 1) |->
               IF i = 1 THEN <<"mousedown", 2, 2>>
               ELSE IF gest[i + 1].kind = "touchmove" THEN <<"mousemove", 2, 2>>
               ELSE <<"mouseup", 2, 2>>]
       /\ timers = {}
       /\ contextMenuTimer = Null

C3_Witness ==
    /\ GestKinds = <<"touchstart", "touchmove", "touchmove", "touchend">>
    /\ gest[1].touches = T1
    /\ Len(out) = 3

(* C4: in a two-finger touchstart, touchmove ..., touchend sequence the    *)
(* first touchmove produces exactly one mousedown with button 1 (buttons   *)
(* 4), the touchend exactly one mouseup with button 1, these are the only  *)
(* mousedown and mouseup of the gesture, and after the touchend            *)
(* prevDistance is null and mode None.                                     *)
C4_PinchDrag ==
    TwoFingerDrag
    => /\ Kind(out[1]) = <<"mousedown", 1, 4>>
       /\ (Len(gest) = 2 => Len(out) = 1)
       /\ \A i \in 2..Len(out) : out[i].type # "mousedown"
       /\ IF gest[Len(gest)].kind = "touchend"
          THEN /\ Kind(out[Len(out)]) = <<"mouseup", 1, 4>>
               /\ \A i \in 1..(Len(out) - 1) : out[i].type # "mouseup"
               /\ prevDistance = Null
               /\ mode = "None"
          ELSE \A i \in 1..Len(out) : out[i].type # "mouseup"

C4_Witness ==
    /\ GestKinds = <<"touchstart", "touchmove", "touchmove", "touchend">>
    /\ gest[1].touches = T2a
    /\ gest[3].touches = T2b
    /\ prevDistance = Null
    /\ Kind(lastOut[1]) = <<"mouseup", 1, 4>>

(* The separation of the first two touch points, in screen coordinates.    *)
Separation(touches) ==
    Hypot(touches[1].screenX - touches[2].screenX,
          touches[1].screenY - touches[2].screenY)

(* The last step was an accepted touchmove, so lastOut is what it          *)
(* dispatched.                                                             *)
AfterMove == lastIn.kind = "touchmove" /\ lastIn.accepted

(* C5: in a two-finger gesture whose touchmoves all carry two points,      *)
(* every touchmove after the first dispatches one mousemove, and every     *)
(* touchmove from the third on (the second handled in ZoomPan) also one    *)
(* mousewheel whose deltaY has the sign of (separation - previous          *)
(* separation), whatever the separations, zero included.                   *)
C5_WheelOnEveryPinchMove ==
    (/\ TwoFingerDrag
     /\ AfterMove
     /\ \A i \in 2..Len(gest) : Len(gest[i].touches) >= 2)
    => /\ (Len(gest) >= 3 =>
             /\ lastOut[1].type = "mousemove"
             /\ \A i \in 2..Len(lastOut) : lastOut[i].type # "mousemove")
       /\ (Len(gest) >= 4 =>
             /\ Len(lastOut) = 2
             /\ lastOut[2].type = "mousewheel"
             /\ Sign(lastOut[2].deltaY.num) =
                  Sign(Separation(gest[Len(gest)].touches)
                         - Separation(gest[Len(gest) - 1].touches)))

(* C6 as stated: after a touchstart at (0,0), (100,0) the first touchmove  *)
(* dispatches a mousedown, and the touchmove to (0,0), (80,0) that follows *)
(* dispatches a mousemove and a mousewheel whose deltaY is                 *)
(* (80 - 100) / width * 10000, the separation at the touchstart being the  *)
(* reference.                                                              *)
C6_StartIsReference ==
    (/\ TwoFingerDrag
     /\ AfterMove
     /\ gest[1].touches = T2a)
    => /\ (Len(gest) = 2 => Kinds(lastOut) = << <<"mousedown", 1, 4>> >>)
       /\ ((Len(gest) = 3 /\ gest[3].touches = T2b) =>
             /\ Kinds(lastOut) = << <<"mousemove", 2, 0>>, <<"mousewheel", 0, 0>> >>
             /\ lastOut[2].deltaY =
                  Rat((Separation(T2b) - Separation(T2a)) * ZOOM_SENSITIVITY,
                      screenWidth))

(* C6 amended: after a touchstart at (0,0), (100,0) the first touchmove    *)
(* dispatches a mousedown; the touchmove to separation 80 that follows it  *)
(* dispatches a mousemove and, when prevDistance was null at the           *)
(* touchstart, no mousewheel; a touchmove to separation 80 that follows a  *)
(* ZoomPan touchmove at separation 100 dispatches a mousemove and a        *)
(* mousewheel with the negative deltaY (80 - 100) / width * 10000.         *)
C6_PreviousMoveIsReference ==
    (/\ TwoFingerDrag
     /\ AfterMove
     /\ gest[1].touches = T2a)
    => /\ (Len(gest) = 2 => Kinds(lastOut) = << <<"mousedown", 1, 4>> >>)
       /\ ((Len(gest) = 3 /\ gest[3].touches = T2b /\ startDistance = Null) =>
             Kinds(lastOut) = << <<"mousemove", 2, 0>> >>)
       /\ ((Len(gest) = 4 /\ gest[3].touches = T2d /\ gest[4].touches = T2b) =>
             /\ Kinds(lastOut) = << <<"mousemove", 2, 0>>, <<"mousewheel", 0, 0>> >>
             /\ lastOut[2].wheel
             /\ lastOut[2].deltaY = Rat((80 - 100) * ZOOM_SENSITIVITY, screenWidth)
             /\ lastOut[2].deltaY.num < 0
             /\ lastOut[2].deltaY.den > 0)

C6_Witness ==
    /\ GestKinds = <<"touchstart", "touchmove", "touchmove">>
    /\ gest[1].touches = T2a
    /\ gest[3].touches = T2b
    /\ startDistance = Null
    /\ AfterMove
    /\ Len(lastOut) = 1

(* C7: when the timer fires, mousedown and mouseup are dispatched, both    *)
(* with button 2 and buttons 2 for a touchstart of one finger as of two,   *)
(* both at the coordinates of the touchstart (the point, or the mean of    *)
(* the first two points; (100,100) for a touchstart at (100,100)), and     *)
(* mode is None.                                                           *)
C7_LongPressEvents ==
    (lastIn.kind = "timer")
    => /\ GestKinds = <<"touchstart", "timer">>
       /\ Kinds(lastOut) = << <<"mousedown", 2, 2>>, <<"mouseup", 2, 2>> >>
       /\ mode = "None"
       /\ LET ts == gest[1].touches
          IN  \A i \in 1..2 :
                /\ (Len(ts) = 1 =>
                      /\ lastOut[i].screenX = ts[1].screenX
                      /\ lastOut[i].screenY = ts[1].screenY
                      /\ lastOut[i].clientX = ts[1].clientX
                      /\ lastOut[i].clientY = ts[1].clientY
                      /\ lastOut[i].pageX = ts[1].pageX
                      /\ lastOut[i].pageY = ts[1].pageY)
                /\ (Len(ts) >= 2 =>
                      /\ 2 * lastOut[i].screenX = ts[1].screenX + ts[2].screenX
                      /\ 2 * lastOut[i].screenY = ts[1].screenY + ts[2].screenY
                      /\ 2 * lastOut[i].clientX = ts[1].clientX + ts[2].clientX
                      /\ 2 * lastOut[i].clientY = ts[1].clientY + ts[2].clientY
                      /\ 2 * lastOut[i].pageX = ts[1].pageX + ts[2].pageX
                      /\ 2 * lastOut[i].pageY = ts[1].pageY + ts[2].pageY)
                /\ (ts = <<Touch(100, 100)>> =>
                      lastOut[i].screenX = 100 /\ lastOut[i].screenY = 100)

C7_Witness ==
    /\ lastIn.kind = "timer"
    /\ gest[1].touches = T2a
    /\ Len(lastOut) = 2
    /\ lastOut[1].button = 2
    /\ lastOut[1].screenX = 50

(* C8: a gesture that begins in mode None dispatches the events the same   *)
(* notifications and timer firings dispatch from the initial state,        *)
(* whatever happened before: every handler run dispatches what the         *)
(* reference classifier dispatches.                                        *)
C8_HistoryIndependent == lastOut = ref.out

(* C9: at most one timeout is scheduled, and a scheduled timeout is the    *)
(* one contextMenuTimer names.                                             *)
C9_OneTimer ==
    /\ Cardinality(timers) <= 1
    /\ \A t \in timers : contextMenuTimer = <<t.id>>

C9_Witness ==
    /\ Cardinality(timers) = 1
    /\ lastIn.kind = "touchstart"
    /\ lastIn.accepted
    /\ startDistance # Null

(* C10: prevDistance and contextMenuTimer are never both set, and in mode  *)
(* None both are null.                                                     *)
C10_MemoryTimerExclusive ==
    /\ ~(prevDistance # Null /\ contextMenuTimer # Null)
    /\ (mode = "None" => prevDistance = Null /\ contextMenuTimer = Null)

(* C11: a timeout is scheduled only while the last accepted notification   *)
(* is a touchstart; once a touchmove or touchend was accepted none is      *)
(* scheduled, so the callback cannot run then, and a callback that ran     *)
(* ran directly after the touchstart of its gesture.                       *)
C11_DisarmEffective ==
    /\ (timers # {} => (gest # <<>> /\ gest[Len(gest)].kind = "touchstart"))
    /\ \A i \in 1..Len(gest) :
          /\ (gest[i].kind \in {"touchmove", "touchend"} =>
                \A j \in (i + 1)..Len(gest) : gest[j].kind # "timer")
          /\ (gest[i].kind = "timer" => (i = 2 /\ gest[1].kind = "touchstart"))
    /\ (lastIn.kind = "timer" => gest[Len(gest) - 1].kind = "touchstart")

C11_Witness ==
    /\ GestKinds = <<"touchstart", "touchend", "touchmove">>
    /\ lastIn.kind = "touchmove"
    /\ lastIn.accepted
    /\ timers = {}
    /\ Len(out) = 3

(* C12: a touchstart, touchmove or touchend whose target exists, has an id *)
(* and whose id is not 'canvas' is rejected: preventDefault is not called, *)
(* nothing is dispatched, and mode, prevDistance, contextMenuTimer and the *)
(* scheduled timeouts stay as they are; one whose target has no id (or is  *)
(* absent) is accepted and its default prevented.                          *)
C12_RejectLeavesState ==
    [][(lastIn'.kind \in {"touchstart", "touchmove", "touchend"})
       => IF lastIn'.target.exists /\ lastIn'.target.hasId
             /\ lastIn'.target.id # "canvas"
          THEN /\ ~lastIn'.accepted
               /\ ~lastIn'.defaultPrevented
               /\ lastOut' = <<>>
               /\ sentTo' = Null
               /\ UNCHANGED <<mode, prevDistance, contextMenuTimer, timers,
                              canvas>>
          ELSE (~lastIn'.target.hasId) =>
                 (lastIn'.accepted /\ lastIn'.defaultPrevented)]_vars

C12_Witness ==
    /\ lastIn.kind = "touchmove"
    /\ ~lastIn.accepted
    /\ lastIn.target.id = "toolbar"
    /\ mode = "PreZoomPan"
    /\ timers # {}
    /\ prevDistance # Null

(* C13: the script's touchstart, touchmove and touchend listeners are      *)
(* registered, and the patch is installed and stays installed; an          *)
(* addEventListener call of page code for a type starting with 'touch'     *)
(* leaves the registered listeners as they are, a call for any other type  *)
(* registers the listener as the platform's addEventListener does; so the  *)
(* listeners for types starting with 'touch' are the script's three.       *)
C13_ListenerSuppression ==
    /\ [](/\ patched
          /\ {l \in listeners : startsWith(l.type, touch)} =
               {Listener(t, "document", "script") :
                  t \in {touchstart, touchmove, touchend}})
    /\ [][/\ patched'
          /\ (lastReg' # Null =>
                IF startsWith(lastReg'[1].type, touch)
                THEN listeners' = listeners
                ELSE listeners' = listeners \cup {lastReg'[1]})]_vars

C13_Witness ==
    /\ lastReg # Null
    /\ lastReg[1].type = touchcancel
    /\ Listener(click, "canvas", "host") \in listeners
    /\ Listener(Touchstart, "document", "host") \in listeners
    /\ Cardinality(listeners) = 6

(* The coordinate members of a Touch and of a synthesized event.           *)
Coordinates == {"screenX", "screenY", "clientX", "clientY", "pageX", "pageY"}

(* C14: every coordinate of every event a handler run dispatches is the    *)
(* mean of the first two touch points of the notification it was           *)
(* dispatched for when that carries two or more, the coordinate of the     *)
(* single point when it carries one, and zero when it carries none.        *)
C14_CoordinateRule ==
    (lastOut # <<>>)
    => LET ts == gest[Len(gest)].touches
       IN  \A i \in 1..Len(lastOut), c \in Coordinates :
             IF Len(ts) >= 2
             THEN 2 * lastOut[i][c] = ts[1][c] + ts[2][c]
             ELSE IF Len(ts) = 1
                  THEN lastOut[i][c] = ts[1][c]
                  ELSE lastOut[i][c] = 0

C14_Witness ==
    /\ lastIn.kind = "touchend"
    /\ lastIn.accepted
    /\ gest # <<>>
    /\ gest[Len(gest)].touches = T3
    /\ Len(lastOut) = 1
    /\ lastOut[1].screenX = 20
    /\ lastOut[1].pageY = 200

(* C15: no accepted touchmove or touchend ends with an error, a touchmove  *)
(* handled in ZoomPan with one or no touch point included.                 *)
C15_NeverThrows ==
    (lastIn.accepted /\ lastIn.kind \in {"touchmove", "touchend"}) => ~threw

(* C16: after every accepted touchend mode is None, no timeout is          *)
(* scheduled, contextMenuTimer is null and prevDistance is null.           *)
C16_EndsIdle ==
    (lastIn.kind = "touchend" /\ lastIn.accepted)
    => /\ mode = "None"
       /\ contextMenuTimer = Null
       /\ timers = {}
       /\ prevDistance = Null

(* C17: prevDistance is set only while mode is ZoomPan.                    *)
C17_MemoryOnlyWhilePinching == prevDistance # Null => mode = "ZoomPan"

(* C18: a mousewheel is dispatched only by a touchmove that follows a      *)
(* touchmove handled in ZoomPan in the same gesture, and its deltaY is     *)
(* (separation - separation at that previous touchmove) / screen.width *   *)
(* 10000.                                                                  *)
C18_WheelDelta ==
    \A i \in 1..Len(lastOut) :
       lastOut[i].wheel
       => /\ AfterMove
          /\ TwoFingerDrag
          /\ Len(gest) >= 4
          /\ gest[Len(gest)].kind = "touchmove"
          /\ Len(gest[Len(gest)].touches) >= 2
          /\ Len(gest[Len(gest) - 1].touches) >= 2
          /\ lastOut[i].deltaY =
               Rat((Separation(gest[Len(gest)].touches)
                      - Separation(gest[Len(gest) - 1].touches)) * 10000,
                   screenWidth)

(* C19: after a one-finger touchstart at a point P directly followed by a  *)
(* touchend whose touches are empty, the mousemove, mousedown and mouseup  *)
(* dispatched all carry the coordinates of P.                              *)
C19_TapAtTouchPoint ==
    (/\ GestKinds = <<"touchstart", "touchend">>
     /\ Len(gest[1].touches) = 1
     /\ gest[2].touches = T0)
    => /\ Len(out) = 3
       /\ \A i \in 1..Len(out), c \in Coordinates :
             out[i][c] = gest[1].touches[1][c]

(* C20: an accepted touchstart, whatever the mode before it, dispatches    *)
(* nothing, sets mode PreRotate for one touch point and PreZoomPan for two *)
(* or more, and leaves exactly one timeout scheduled, its own, of 1000 ms, *)
(* named by contextMenuTimer; events are dispatched only by a touchmove, a *)
(* touchend or the timer callback.                                         *)
C20_StartDefers ==
    /\ (lastIn.kind = "touchstart" /\ lastIn.accepted)
       => /\ lastOut = <<>>
          /\ out = <<>>
          /\ sentTo = Null
          /\ (Len(gest[1].touches) = 1 => mode = "PreRotate")
          /\ (Len(gest[1].touches) >= 2 => mode = "PreZoomPan")
          /\ contextMenuTimer # Null
          /\ timers = {[id |-> contextMenuTimer[1],
                        touches |-> gest[1].touches, delay |-> 1000]}
    /\ (lastOut # <<>> => lastIn.kind \in {"touchmove", "touchend", "timer"})

C20_Witness ==
    /\ lastIn.kind = "touchstart"
    /\ lastIn.accepted
    /\ mode = "PreZoomPan"
    /\ prevDistance # Null
    /\ Cardinality(timers) = 1
    /\ lastOut = <<>>

(* C21: after a two-finger touchstart, accepted touchends with no          *)
(* touchmove before them dispatch nothing and leave mode PreZoomPan, with  *)
(* no timeout scheduled; the touchmove accepted after them dispatches the  *)
(* mousedown with button 1 and takes mode to ZoomPan.                      *)
C21_PinchTapUnconsumed ==
    (/\ Len(gest) >= 2
     /\ gest[1].kind = "touchstart"
     /\ Len(gest[1].touches) >= 2
     /\ \A i \in 2..(Len(gest) - 1) : gest[i].kind = "touchend")
    => /\ (gest[Len(gest)].kind = "touchend" =>
             /\ out = <<>>
             /\ mode = "PreZoomPan"
             /\ timers = {}
             /\ contextMenuTimer = Null)
       /\ ((Len(gest) >= 3 /\ gest[Len(gest)].kind = "touchmove") =>
             /\ Kinds(out) = << <<"mousedown", 1, 4>> >>
             /\ mode = "ZoomPan")

C21_Witness ==
    /\ GestKinds = <<"touchstart", "touchend", "touchend", "touchmove">>
    /\ gest[1].touches = T2a
    /\ mode = "ZoomPan"
    /\ Len(out) = 1

(* C22: every accepted touchstart, touchmove or touchend has its default   *)
(* prevented and the timeout scheduled before it cleared, also when the    *)
(* listener ends with an error afterwards: after a touchmove or touchend   *)
(* no timeout is scheduled, after a touchstart only its own.               *)
C22_GateBeforeClassification ==
    (lastIn.accepted /\ lastIn.kind \in {"touchstart", "touchmove", "touchend"})
    => /\ lastIn.defaultPrevented
       /\ IF lastIn.kind = "touchstart"
          THEN \A t \in timers :
                 t.touches = gest[1].touches /\ contextMenuTimer = <<t.id>>
          ELSE timers = {} /\ contextMenuTimer = Null

C22_Witness ==
    /\ AfterMove
    /\ threw
    /\ lastIn.defaultPrevented
    /\ timers = {}
    /\ prevDistance # Null

(* C24: the first touchmove handled in ZoomPan in a gesture dispatches no  *)
(* mousewheel; a mousewheel is dispatched only after an earlier touchmove  *)
(* of the same gesture was handled in ZoomPan with two touch points.       *)
C24_NoWheelOnFirstPinchMove ==
    /\ (TwoFingerDrag /\ AfterMove /\ Len(gest) = 3)
       => \A i \in 1..Len(lastOut) : lastOut[i].type # "mousewheel"
    /\ (\E i \in 1..Len(lastOut) : lastOut[i].type = "mousewheel")
       => \E j \in 3..(Len(gest) - 1) :
             gest[j].kind = "touchmove" /\ Len(gest[j].touches) >= 2

(* C27: while a timeout is scheduled (contextMenuTimer set) mode is        *)
(* PreRotate or PreZoomPan, and while mode is PreRotate a timeout is       *)
(* scheduled.                                                              *)
C27_TimerOnlyWhilePending ==
    /\ (contextMenuTimer # Null \/ timers # {})
       => mode \in {"PreRotate", "PreZoomPan"}
    /\ (mode = "PreRotate") => (contextMenuTimer # Null /\ timers # {})

C27_Witness ==
    /\ mode = "PreRotate"
    /\ Cardinality(timers) = 1
    /\ lastIn.kind = "touchend"
    /\ ~lastIn.accepted
    /\ prevDistance # Null

(* C28: an accepted touchmove or touchend that finds mode None dispatches  *)
(* nothing and leaves mode None and prevDistance as it was.                *)
C28_IdleIgnoresMoveAndEnd ==
    [][(/\ mode = "None"
        /\ lastIn'.accepted
        /\ lastIn'.kind \in {"touchmove", "touchend"})
       => /\ lastOut' = <<>>
          /\ sentTo' = Null
          /\ mode' = "None"
          /\ prevDistance' = prevDistance]_vars

C28_Witness ==
    /\ GestKinds = <<"touchstart", "timer", "touchmove">>
    /\ lastIn.kind = "touchmove"
    /\ lastIn.accepted
    /\ mode = "None"
    /\ prevDistance # Null
    /\ lastOut = <<>>

(* C23: whenever mode is PreRotate or PreZoomPan with a timeout scheduled, *)
(* either a touchmove or touchend is accepted, or the callback eventually  *)
(* runs: mousedown and mouseup with button 2 are dispatched,               *)
(* contextMenuTimer is null, no timeout is scheduled and mode is None.     *)
C23_LongPressFires ==
    (mode \in {"PreRotate", "PreZoomPan"} /\ timers # {})
    ~> \/ /\ lastIn.kind = "timer"
          /\ Kinds(lastOut) = << <<"mousedown", 2, 2>>, <<"mouseup", 2, 2>> >>
          /\ contextMenuTimer = Null
          /\ timers = {}
          /\ mode = "None"
       \/ /\ gest # <<>>
          /\ gest[Len(gest)].kind \in {"touchmove", "touchend"}

C23_Witness ==
    /\ lastIn.kind = "timer"
    /\ GestKinds = <<"touchstart", "timer">>
    /\ gest[1].touches = T2a
    /\ mode = "None"
    /\ contextMenuTimer = Null
    /\ timers = {}
    /\ startDistance # Null

(* C25: once canvas holds an element it never changes, and the events of   *)
(* every later handler run are dispatched on it, whatever the document     *)
(* holds by then; while canvas is null a handler run that dispatches looks *)
(* the element up, and when there is none nothing is delivered, canvas     *)
(* stays null and the mode still changes as the listener's switch says.    *)
C25_TargetCaching ==
    [][/\ (canvas # Null) =>
            /\ canvas' = canvas
            /\ ((dom' = dom /\ lastOut' # <<>>) => sentTo' = canvas)
       /\ (canvas = Null /\ dom' = dom /\ lastOut' # <<>>) =>
            /\ canvas' = dom
            /\ sentTo' = dom
            /\ (lastIn'.kind = "timer" => mode' = "None")
            /\ (lastIn'.kind = "touchend" => mode' = "None")
            /\ (lastIn'.kind = "touchmove" /\ mode = "PreRotate"
                  => mode' = "Rotate")
            /\ (lastIn'.kind = "touchmove" /\ mode = "PreZoomPan"
                  => mode' = "ZoomPan")
       /\ (lastOut' = <<>> \/ dom' # dom) => canvas' = canvas]_vars

C25_Witness ==
    /\ canvas = <<1>>
    /\ dom = <<2>>
    /\ sentTo = <<1>>
    /\ lastIn.kind = "touchmove"
    /\ mode = "Rotate"
    /\ Len(out) = 2

(* Whether the mousedowns and mouseups among evs, dispatched with h held,  *)
(* are balanced: no mousedown while one is held, and a mouseup with the    *)
(* button and buttons of the mousedown it answers.                         *)
RECURSIVE pressesBalanced(_, _)
pressesBalanced(h, evs) ==
    IF evs = <<>>
    THEN TRUE
    ELSE LET ev == Head(evs)
         IN  CASE ev.type = "mousedown" ->
                    /\ h = Null
                    /\ pressesBalanced(<< <<ev.button, ev.buttons>> >>, Tail(evs))
               [] ev.type = "mouseup" ->
                    /\ (h # Null => h[1] = <<ev.button, ev.buttons>>)
                    /\ pressesBalanced(Null, Tail(evs))
               [] OTHER -> pressesBalanced(h, Tail(evs))

(* C26: over any sequence of accepted notifications and timer firings no   *)
(* mousedown is dispatched while an earlier mousedown has had no mouseup,  *)
(* and every mouseup carries the button and buttons of the mousedown       *)
(* before it, also when a touchstart arrives in Rotate or ZoomPan.         *)
C26_ButtonsBalanced == [][pressesBalanced(held, lastOut')]_vars

TypeOK ==
    /\ mode \in Mode
    /\ Cardinality(timers) <= MaxTimerId
=============================================================================
